---- MODULE Spec2Model ----
(***************************************************************************)
(* Model of imgbot.py: the selector registry, get_request, get_image_url,  *)
(* the per-post routing loop of route_posts, the two fetch strategies and  *)
(* the multi-subreddit fan-out of ImgBot.download.                         *)
(*                                                                         *)
(* A URL is a sequence of tokens, e.g.                                     *)
(*   "http://imgur.com/a/XYZ"  is  <<"http://","imgur.com","/a/","XYZ">>.  *)
(* String operations of the source (startswith, endswith, lower, in,       *)
(* urlparse().netloc, f'{url}/zip') are operators over these sequences.    *)
(***************************************************************************)
EXTENDS Integers, Sequences, FiniteSets, TLC

VARIABLES selectorsFile, IMAGE_SELECTORS, albums, gifs, nsfw, pc, cur,
          poolPc, task, runs, ndl, fh, disk, hist

vars == <<selectorsFile, IMAGE_SELECTORS, albums, gifs, nsfw, pc, cur,
          poolPc, task, runs, ndl, fh, disk, hist>>

routerVars == <<selectorsFile, IMAGE_SELECTORS, albums, gifs, nsfw, pc, cur>>
poolVars == <<poolPc, task, runs, ndl, fh, disk, hist>>

(***************************************************************************)
(* Strings                                                                 *)
(***************************************************************************)
Schemes == {"http://", "https://"}

\* url.startswith(('http://', 'https://'))
HasScheme(url) == Len(url) > 0 /\ url[1] \in Schemes

\* urlparse(url).netloc: empty when the string has no scheme
Netloc(url) == IF HasScheme(url) /\ Len(url) >= 2 THEN url[2] ELSE ""

\* '/a/' in url
HasAlbumMarker(url) == \E i \in 1..Len(url) : url[i] = "/a/"

LowerTok(t) ==
    CASE t = ".GIF" -> ".gif"
      [] t = ".Gifv" -> ".gifv"
      [] t = ".JPG" -> ".jpg"
      [] t = "XYZ" -> "xyz"
      [] t = "ASoeL" -> "asoel"
      [] OTHER -> t

\* url.lower()
Lower(url) == [i \in 1..Len(url) |-> LowerTok(url[i])]

\* url.endswith(suffixes)
EndsWith(url, suffixes) == Len(url) > 0 /\ url[Len(url)] \in suffixes

IMAGE_FORMATS == {".png", ".gif", ".gifv", ".jpg", ".jpeg"}

GIF_FORMATS == {".gif", ".gifv"}

\* f'{url}/zip'
ArchiveUrlNoSuffix(url) == url
ArchiveUrl(url) == Append(url, "/zip")

\* not url.lower().endswith(IMAGE_FORMATS), negated
IsDirectImageCaseSensitive(url) == EndsWith(url, IMAGE_FORMATS)
IsDirectImage(url) == EndsWith(Lower(url), IMAGE_FORMATS)

\* url.endswith(('.gif', '.gifv'))
IsGif(url) == EndsWith(url, GIF_FORMATS)

(***************************************************************************)
(* Selector registry                                                       *)
(***************************************************************************)
BuiltinSelectors ==
    [d \in {"default", "imgur.com", "tinypic.com", "gfycat.com"} |->
        CASE d = "default" -> [name |-> "meta", property |-> "og:image", link |-> "content"]
          [] d = "imgur.com" -> [name |-> "link", rel |-> "image_src", link |-> "href"]
          [] d = "tinypic.com" -> [name |-> "a", class |-> "thickbox", link |-> "href"]
          [] d = "gfycat.com" -> [name |-> "meta", property |-> "og:url", link |-> "content"]]

EmptyTable == [d \in {} |-> [name |-> ""]]

\* the contents selectors.json may have when the module is imported
SelectorFiles ==
    { [kind |-> "absent", table |-> EmptyTable],
      [kind |-> "invalid_json", table |-> EmptyTable],
      [kind |-> "not_mapping", table |-> EmptyTable],
      [kind |-> "mapping",
       table |-> [d \in {"example.com"} |-> [name |-> "img", id |-> "main", link |-> "src"]]],
      [kind |-> "mapping",
       table |-> [d \in {"imgur.com"} |-> [name |-> "img", class |-> "post", link |-> "src"]]],
      [kind |-> "mapping",
       table |-> [d \in {"example.com"} |-> [name |-> "img", id |-> "main"]]] }

\* {**a, **b}
Merge(a, b) == [k \in DOMAIN a \cup DOMAIN b |-> IF k \in DOMAIN b THEN b[k] ELSE a[k]]

\* module start-up: the built-in table, merged with selectors.json when the
\* file exists and loads as a mapping
LoadSelectors(file) ==
    IF file.kind = "mapping" THEN Merge(BuiltinSelectors, file.table)
    ELSE BuiltinSelectors

\* dict.pop(key) on a rule: the rule without the key
Pop(rule, key) == [k \in DOMAIN rule \ {key} |-> rule[k]]

\* the registry after get_image_url popped 'link': the pop is applied to the
\* per-call .copy() of the rule, so the registry keeps the rule
RegistryAfterPopNoCopy(reg, key) == [reg EXCEPT ![key] = Pop(reg[key], "link")]
RegistryAfterPop(reg, key) == reg

(***************************************************************************)
(* get_request                                                             *)
(***************************************************************************)
NoUrl == [some |-> FALSE, url |-> <<>>]
SomeUrl(url) == [some |-> TRUE, url |-> url]

\* ok is the transport's answer (req.ok); the result records the call
\* (kind and arg), the URL sent to session.get (wire), the printed notice
\* and whether None was returned
get_request_unchecked(kind, url, ok) ==
    [kind |-> kind, arg |-> url,
     wire |-> IF HasScheme(url) THEN url ELSE <<"http://">> \o url,
     ok |-> ok, none |-> FALSE, notices |-> <<>>]
get_request(kind, url, ok) ==
    [kind |-> kind, arg |-> url,
     wire |-> IF HasScheme(url) THEN url ELSE <<"http://">> \o url,
     ok |-> ok, none |-> ~ok,
     notices |-> IF ok THEN <<>> ELSE <<"bad_url">>]

Fetch(r) == [kind |-> r.kind, arg |-> r.arg, wire |-> r.wire, ok |-> r.ok]

(***************************************************************************)
(* get_image_url                                                           *)
(***************************************************************************)
NoRule == [name |-> ""]

\* env.pageOk: the page fetch succeeded; env.elem: soup.find found an
\* element; env.attr: what img.get(link) returns (NoUrl for None)
get_image_url(reg, url, env) ==
    LET domain == Netloc(url)
        key == IF domain \in DOMAIN reg THEN domain ELSE "default"
        selectors == reg[key]
        base == [raised |-> "none", domain |-> domain, rule |-> selectors,
                 reg |-> reg, fetches |-> <<>>, notices |-> <<>>, result |-> NoUrl]
    IN  IF "link" \notin DOMAIN selectors
        THEN [base EXCEPT !.raised = "KeyError"]
        ELSE LET req == get_request("page", url, env.pageOk)
                 b2 == [base EXCEPT !.reg = RegistryAfterPop(reg, key),
                                    !.fetches = <<Fetch(req)>>,
                                    !.notices = req.notices]
             IN  IF req.none THEN b2
                 ELSE IF ~env.elem
                      THEN [b2 EXCEPT !.notices = @ \o <<"unsupported">>]
                      ELSE [b2 EXCEPT !.result = env.attr]

(***************************************************************************)
(* Fetch strategies                                                        *)
(***************************************************************************)
\* env.ioOk = FALSE: open()/write() raises OSError
download_image(c, env) ==
    [c EXCEPT !.strategy = "download_image",
              !.raised = IF env.ioOk THEN "none" ELSE "OSError"]

\* env.ioOk = FALSE: the body is not a zip archive, ZipFile raises BadZipFile
download_album(c, env) ==
    [c EXCEPT !.strategy = "download_album",
              !.raised = IF env.ioOk THEN "none" ELSE "BadZipFile"]

(***************************************************************************)
(* route_posts: one iteration of the loop                                  *)
(***************************************************************************)
NoPost == [url |-> <<>>, stickied |-> FALSE, is_self |-> FALSE, over_18 |-> FALSE]

\* what one iteration did: the fetches issued, the URL worked on, the
\* strategy invoked, the notices printed and the exception raised, if any
Fresh(post) ==
    [post |-> post, routed |-> FALSE, scraped |-> FALSE, domain |-> "",
     rule |-> NoRule, fetches |-> <<>>, working |-> NoUrl,
     strategy |-> "none", notices |-> <<>>, raised |-> "none"]

\* if post.stickied or post.is_self / if post.over_18 and not nsfw
FilteredIgnoringNsfw(post, nsfwOpt) == post.stickied \/ post.is_self
Filtered(post, nsfwOpt) ==
    \/ post.stickied \/ post.is_self
    \/ post.over_18 /\ ~nsfwOpt

\* the gif check, the download fetch and the strategy dispatch
dispatch(c, url, gifsOpt, env) ==
    LET c1 == [c EXCEPT !.working = SomeUrl(url)]
    IN  IF IsGif(url) /\ ~gifsOpt
        THEN [c1 EXCEPT !.notices = @ \o <<"ignoring_gif">>]
        ELSE LET req == get_request("download", url, env.dlOk)
                 c2 == [c1 EXCEPT !.fetches = @ \o <<Fetch(req)>>,
                                  !.notices = @ \o req.notices]
                 c3 == IF HasAlbumMarker(url) THEN download_album(c2, env)
                       ELSE download_image(c2, env)
             IN  IF req.none THEN c2
                 ELSE IF c3.raised # "none" THEN c3
                 ELSE [c3 EXCEPT !.notices = @ \o <<"downloaded">>]

\* the loop body for one post; the result carries the registry afterwards
route_post(post, albumsOpt, gifsOpt, nsfwOpt, reg, env) ==
    LET c == [Fresh(post) EXCEPT !.routed = TRUE]
        url == post.url
    IN  IF Filtered(post, nsfwOpt) THEN [c |-> c, reg |-> reg]
        ELSE IF HasAlbumMarker(url)
        THEN IF ~albumsOpt
             THEN [c |-> [c EXCEPT !.notices = <<"ignoring_album">>], reg |-> reg]
             ELSE [c |-> dispatch(c, ArchiveUrl(url), gifsOpt, env), reg |-> reg]
        ELSE IF ~IsDirectImage(url)
        THEN LET r == get_image_url(reg, url, env)
                 cs == [c EXCEPT !.scraped = TRUE, !.domain = r.domain,
                                 !.rule = r.rule, !.fetches = r.fetches,
                                 !.notices = r.notices, !.raised = r.raised]
             IN  IF r.raised # "none" THEN [c |-> cs, reg |-> r.reg]
                 ELSE IF ~r.result.some \/ r.result.url = <<>>
                      THEN [c |-> cs, reg |-> r.reg]
                      ELSE [c |-> dispatch(cs, r.result.url, gifsOpt, env), reg |-> r.reg]
        ELSE [c |-> dispatch(c, url, gifsOpt, env), reg |-> reg]

(***************************************************************************)
(* Inputs                                                                  *)
(***************************************************************************)
PostUrls ==
    { <<"http://", "imgur.com", "/a/", "XYZ">>,
      <<"imgur.com", "/a/", "XYZ">>,
      <<"http://", "x.com", "/", "pic", ".jpg">>,
      <<"x.com", "/", "pic", ".jpg">>,
      <<"http://", "x.com", "/", "pic", ".JPG">>,
      <<"http://", "x.com", "/", "pic", ".gif">>,
      <<"http://", "x.com", "/", "pic", ".GIF">>,
      <<"https://", "x.com", "/", "pic", ".Gifv">>,
      <<"http://", "imgur.com", "/", "ASoeL">>,
      <<"imgur.com", "/", "ASoeL">>,
      <<"http://", "example.com", "/", "page">>,
      <<"http://", "x.com", "/", "page">> }

Posts == [url : PostUrls, stickied : BOOLEAN, is_self : BOOLEAN, over_18 : BOOLEAN]

\* values the link attribute of the matched element may hold
ExtractedUrls ==
    { <<>>,
      <<"http://", "i.imgur.com", "/", "pic", ".jpg">>,
      <<"http://", "i.imgur.com", "/", "pic", ".gif">>,
      <<"http://", "i.imgur.com", "/", "pic", ".GIF">>,
      <<"http://", "cdn.com", "/a/", "pic", ".jpg">> }

Envs == [pageOk : BOOLEAN, elem : BOOLEAN,
         attr : {NoUrl} \cup {SomeUrl(u) : u \in ExtractedUrls},
         dlOk : BOOLEAN, ioOk : BOOLEAN]

(***************************************************************************)
(* Pool state while only route_posts runs                                  *)
(***************************************************************************)
PoolIdle ==
    /\ poolPc = "idle"
    /\ task = <<>>
    /\ runs = <<>>
    /\ ndl = <<>>
    /\ fh = <<>>
    /\ disk = <<>>
    /\ hist = <<>>

(***************************************************************************)
(* route_posts as a state machine                                          *)
(***************************************************************************)
Init ==
    /\ selectorsFile \in SelectorFiles
    /\ IMAGE_SELECTORS = LoadSelectors(selectorsFile)
    /\ albums \in BOOLEAN
    /\ gifs \in BOOLEAN
    /\ nsfw \in BOOLEAN
    /\ pc = "loop"
    /\ cur = Fresh(NoPost)
    /\ PoolIdle

\* for post in posts: the feed yields the next post
NextPost ==
    /\ pc = "loop"
    /\ \E post \in Posts : cur' = Fresh(post)
    /\ pc' = "body"
    /\ UNCHANGED <<selectorsFile, IMAGE_SELECTORS, albums, gifs, nsfw>>
    /\ UNCHANGED poolVars

\* the loop body; an exception leaves route_posts
RoutePost ==
    /\ pc = "body"
    /\ \E env \in Envs :
          LET r == route_post(cur.post, albums, gifs, nsfw, IMAGE_SELECTORS, env)
          IN  /\ cur' = r.c
              /\ IMAGE_SELECTORS' = r.reg
              /\ pc' = IF r.c.raised # "none" THEN "raised" ELSE "loop"
    /\ UNCHANGED <<selectorsFile, albums, gifs, nsfw>>
    /\ UNCHANGED poolVars

\* the feed is exhausted and route_posts returns
Finish ==
    /\ pc = "loop"
    /\ pc' = "done"
    /\ UNCHANGED <<selectorsFile, IMAGE_SELECTORS, albums, gifs, nsfw, cur>>
    /\ UNCHANGED poolVars

Next == NextPost \/ RoutePost \/ Finish

Spec == Init /\ [][Next]_vars

(***************************************************************************)
(* ImgBot.download with several subreddits: one pool task per subreddit,   *)
(* each running its pipeline and writing its downloads in chunks           *)
(***************************************************************************)
MaxSubs == 2
MaxDownloads == 2

FileNames == {"a.jpg", "b.jpg"}

\* response bodies, as sequences of chunks of iter_content
Bodies == {<<"x1", "x2">>, <<"y1">>}

Closed == [open |-> FALSE, name |-> "", body |-> <<>>, pos |-> 0, written |-> 0]

\* open(..., 'wb'): the file is created or truncated, the offset is 0
OpenAppend(d, f) ==
    [content |-> IF f \in DOMAIN d THEN d[f] ELSE <<>>,
     pos |-> IF f \in DOMAIN d THEN Len(d[f]) ELSE 0]
OpenTruncate(d, f) == [content |-> <<>>, pos |-> 0]

\* file.write(chunk) at the handle's offset; a gap left by another
\* handle's truncation reads as zeroes
WriteAt(content, pos, chunk) ==
    IF pos < Len(content)
    THEN [content EXCEPT ![pos + 1] = chunk]
    ELSE content \o [i \in 1..(pos - Len(content)) |-> "0"] \o <<chunk>>

SetFile(d, f, content) ==
    [g \in DOMAIN d \cup {f} |-> IF g = f THEN content ELSE d[g]]

\* p.map(f, sub) returns once every task has finished
MapFinished(t) == \A s \in DOMAIN t : t[s] = "done"

InitPool ==
    /\ selectorsFile = [kind |-> "absent", table |-> EmptyTable]
    /\ IMAGE_SELECTORS = LoadSelectors(selectorsFile)
    /\ albums = TRUE
    /\ gifs = TRUE
    /\ nsfw = FALSE
    /\ pc = "loop"
    /\ cur = Fresh(NoPost)
    /\ PoolIdle

\* download(*sub): with one subreddit the caller runs the pipeline itself,
\* with more it hands one task per subreddit to a pool
Download ==
    /\ poolPc = "idle"
    /\ \E n \in 1..MaxSubs :
          /\ poolPc' = IF n > 1 THEN "map" ELSE "inline"
          /\ task' = [s \in 1..n |-> IF n > 1 THEN "queued" ELSE "running"]
          /\ runs' = [s \in 1..n |-> IF n > 1 THEN 0 ELSE 1]
          /\ ndl' = [s \in 1..n |-> 0]
          /\ fh' = [s \in 1..n |-> Closed]
    /\ UNCHANGED <<disk, hist>>
    /\ UNCHANGED routerVars

\* a pool worker takes the task of one subreddit
StartTask(s) ==
    /\ poolPc = "map"
    /\ task[s] = "queued"
    /\ task' = [task EXCEPT ![s] = "running"]
    /\ runs' = [runs EXCEPT ![s] = @ + 1]
    /\ UNCHANGED <<poolPc, ndl, fh, disk, hist>>
    /\ UNCHANGED routerVars

\* download_image: open the file named after the response
OpenFile(s) ==
    /\ task[s] = "running"
    /\ ~fh[s].open
    /\ ndl[s] < MaxDownloads
    /\ \E f \in FileNames, body \in Bodies :
          LET o == OpenTruncate(disk, f)
          IN  /\ fh' = [fh EXCEPT ![s] = [open |-> TRUE, name |-> f, body |-> body,
                                             pos |-> o.pos, written |-> 0]]
              /\ disk' = SetFile(disk, f, o.content)
              /\ hist' = SetFile(hist, f,
                            [writers |-> (IF f \in DOMAIN hist THEN hist[f].writers ELSE {}) \cup {s},
                             body |-> body])
    /\ UNCHANGED <<poolPc, task, runs, ndl>>
    /\ UNCHANGED routerVars

\* download_image: file.write(chunk) for the next chunk of the body
WriteChunk(s) ==
    /\ task[s] = "running"
    /\ fh[s].open
    /\ fh[s].written < Len(fh[s].body)
    /\ LET h == fh[s]
           content == IF h.name \in DOMAIN disk THEN disk[h.name] ELSE <<>>
       IN  /\ disk' = SetFile(disk, h.name, WriteAt(content, h.pos, h.body[h.written + 1]))
           /\ fh' = [fh EXCEPT ![s].pos = @ + 1, ![s].written = @ + 1]
    /\ UNCHANGED <<poolPc, task, runs, ndl, hist>>
    /\ UNCHANGED routerVars

\* download_image: the body is exhausted and the with block closes the file
CloseFile(s) ==
    /\ task[s] = "running"
    /\ fh[s].open
    /\ fh[s].written = Len(fh[s].body)
    /\ fh' = [fh EXCEPT ![s] = Closed]
    /\ ndl' = [ndl EXCEPT ![s] = @ + 1]
    /\ UNCHANGED <<poolPc, task, runs, disk, hist>>
    /\ UNCHANGED routerVars

\* the feed of the subreddit is exhausted: route_posts and the task return
TaskDone(s) ==
    /\ task[s] = "running"
    /\ ~fh[s].open
    /\ task' = [task EXCEPT ![s] = "done"]
    /\ poolPc' = IF poolPc = "inline" THEN "returned" ELSE poolPc
    /\ UNCHANGED <<runs, ndl, fh, disk, hist>>
    /\ UNCHANGED routerVars

\* p.map returns, p.close(), p.join(): download returns
MapReturn ==
    /\ poolPc = "map"
    /\ MapFinished(task)
    /\ poolPc' = "returned"
    /\ UNCHANGED <<task, runs, ndl, fh, disk, hist>>
    /\ UNCHANGED routerVars

NextPool ==
    \/ Download
    \/ \E s \in DOMAIN task : StartTask(s)
    \/ \E s \in DOMAIN task : OpenFile(s)
    \/ \E s \in DOMAIN task : WriteChunk(s)
    \/ \E s \in DOMAIN task : CloseFile(s)
    \/ \E s \in DOMAIN task : TaskDone(s)
    \/ MapReturn

SpecPool == InitPool /\ [][NextPool]_vars

(***************************************************************************)
(* Properties of route_posts                                               *)
(***************************************************************************)
\* the post of cur went through the loop body
Routed == cur.routed

\* the post of cur is not stickied, not a self post and not a refused NSFW post
PassedFilters ==
    /\ ~cur.post.stickied
    /\ ~cur.post.is_self
    /\ ~(cur.post.over_18 /\ ~nsfw)

DownloadFetches == {i \in 1..Len(cur.fetches) : cur.fetches[i].kind = "download"}
PageFetches == {i \in 1..Len(cur.fetches) : cur.fetches[i].kind = "page"}

Notices == {cur.notices[i] : i \in 1..Len(cur.notices)}

\* the URL as get_request sends it to the transport
Prefixed(url) ==
    IF Len(url) > 0 /\ url[1] \in {"http://", "https://"} THEN url ELSE <<"http://">> \o url

\* endings that are an image extension when compared case-insensitively
ImageEndings == {".png", ".gif", ".gifv", ".jpg", ".jpeg", ".GIF", ".Gifv", ".JPG"}
GifEndings == {".gif", ".gifv", ".GIF", ".Gifv"}

\* C1: a stickied post, a self post, or an over-18 post while nsfw downloads
\* are off, causes no fetch of any kind, no fetch strategy and no notice,
\* whatever its URL.
C1_FilteredPostNoFetch ==
    (Routed /\ (cur.post.stickied \/ cur.post.is_self \/ (cur.post.over_18 /\ ~nsfw)))
        => /\ cur.fetches = <<>>
           /\ cur.strategy = "none"
           /\ cur.notices = <<>>
           /\ ~cur.scraped

C1_Witness ==
    /\ Routed /\ pc = "loop"
    /\ cur.post.over_18 /\ ~nsfw /\ ~cur.post.stickied /\ ~cur.post.is_self
    /\ cur.post.url = <<"http://", "imgur.com", "/a/", "XYZ">>
    /\ albums
    /\ cur.fetches = <<>>

\* C2: for a post that passes the filters and whose URL contains "/a/": with
\* albums on, the only fetch is a download fetch of the post URL with "/zip"
\* appended (sent with the default scheme when the URL has none), there is no
\* page fetch, and a successful response goes to download_album; with albums
\* off there is no fetch and the post is skipped with an 'Ignoring album' notice.
C2_AlbumRouting ==
    (Routed /\ PassedFilters /\ (\E i \in 1..Len(cur.post.url) : cur.post.url[i] = "/a/"))
        => IF albums
           THEN /\ ~cur.scraped
                /\ Len(cur.fetches) = 1
                /\ cur.fetches[1].kind = "download"
                /\ cur.fetches[1].arg = cur.post.url \o <<"/zip">>
                /\ cur.fetches[1].wire = Prefixed(cur.post.url \o <<"/zip">>)
                /\ cur.fetches[1].ok => cur.strategy = "download_album"
                /\ ~cur.fetches[1].ok => cur.strategy = "none"
           ELSE /\ cur.fetches = <<>>
                /\ cur.strategy = "none"
                /\ cur.notices = <<"ignoring_album">>

C2_Witness ==
    /\ Routed /\ PassedFilters /\ albums
    /\ cur.post.url = <<"http://", "imgur.com", "/a/", "XYZ">>
    /\ cur.strategy = "download_album"
    /\ "downloaded" \in Notices

\* C3: for a post that passes the filters, whose URL has no album marker and
\* ends in an image extension (case-insensitively), there is no page fetch,
\* every fetch is a download fetch of the post's URL unchanged, and a
\* successful one goes to download_image.
C3_DirectImageRouting ==
    (/\ Routed /\ PassedFilters
     /\ ~(\E i \in 1..Len(cur.post.url) : cur.post.url[i] = "/a/")
     /\ Len(cur.post.url) > 0
     /\ cur.post.url[Len(cur.post.url)] \in ImageEndings)
        => /\ ~cur.scraped
           /\ PageFetches = {}
           /\ \A i \in DownloadFetches :
                 /\ cur.fetches[i].arg = cur.post.url
                 /\ cur.fetches[i].wire = Prefixed(cur.post.url)
                 /\ cur.fetches[i].ok => cur.strategy = "download_image"
           /\ cur.strategy \in {"none", "download_image"}
           /\ cur.strategy = "download_image" => DownloadFetches # {}

C3_Witness ==
    /\ Routed /\ PassedFilters
    /\ cur.post.url = <<"http://", "x.com", "/", "pic", ".JPG">>
    /\ cur.strategy = "download_image"
    /\ "downloaded" \in Notices

\* C4: with gifs off, a working URL (the post's own direct-image URL or the
\* scraped one) that ends in .gif or .gifv, compared case-insensitively, is
\* never fetched for download and reaches no strategy; the post is skipped
\* with an 'Ignoring gif' notice.
C4_GifNeverDownloaded ==
    (/\ Routed /\ ~gifs /\ cur.working.some
     /\ Len(cur.working.url) > 0
     /\ cur.working.url[Len(cur.working.url)] \in GifEndings)
        => /\ DownloadFetches = {}
           /\ cur.strategy = "none"
           /\ "ignoring_gif" \in Notices

\* C5: a non-success status is never fatal: after a failed page fetch there
\* is no download fetch; after a failed download fetch no strategy runs; in
\* both cases nothing is raised, no success notice is printed and the loop
\* goes on.
C5_BadStatusNotFatal ==
    Routed =>
        /\ (\E i \in PageFetches : ~cur.fetches[i].ok)
              => DownloadFetches = {} /\ ~cur.working.some
        /\ (\E i \in DownloadFetches : ~cur.fetches[i].ok)
              => cur.strategy = "none"
        /\ (\E i \in 1..Len(cur.fetches) : ~cur.fetches[i].ok)
              => /\ cur.raised = "none"
                 /\ "downloaded" \notin Notices
                 /\ "bad_url" \in Notices
                 /\ pc \in {"loop", "done"}

C5_Witness ==
    /\ Routed /\ pc = "loop"
    /\ DownloadFetches # {}
    /\ \E i \in DownloadFetches : ~cur.fetches[i].ok
    /\ cur.scraped

\* C6: one bad post never aborts the run: every post of the feed reaches a
\* terminal outcome (skipped or downloaded) and route_posts then returns
\* normally; no failure on a post keeps the later posts from being processed.
C6_NoPostAbortsRun ==
    /\ pc # "raised"
    /\ Routed => cur.raised = "none"

\* C7: the registry always equals the table built at start-up (built-in
\* table, overridden by the entries of selectors.json when it loads as a
\* mapping), and the rule looked up for a domain is the override entry,
\* else the built-in entry, else the "default" rule.
StartupTable ==
    LET user == IF selectorsFile.kind = "mapping" THEN selectorsFile.table ELSE EmptyTable
    IN  [d \in DOMAIN BuiltinSelectors \cup DOMAIN user |->
            IF d \in DOMAIN user THEN user[d] ELSE BuiltinSelectors[d]]

RuleFor(d) ==
    LET user == IF selectorsFile.kind = "mapping" THEN selectorsFile.table ELSE EmptyTable
    IN  IF d \in DOMAIN user THEN user[d]
        ELSE IF d \in DOMAIN BuiltinSelectors THEN BuiltinSelectors[d]
        ELSE IF "default" \in DOMAIN user THEN user["default"]
        ELSE BuiltinSelectors["default"]

C7_RegistryUnchanged ==
    /\ IMAGE_SELECTORS = StartupTable
    /\ (Routed /\ cur.scraped) => cur.rule = RuleFor(cur.domain)

C7_Witness ==
    /\ Routed /\ cur.scraped /\ pc = "loop"
    /\ cur.domain = "example.com"
    /\ selectorsFile.kind = "mapping"
    /\ "example.com" \in DOMAIN selectorsFile.table
    /\ cur.rule = [name |-> "img", id |-> "main", link |-> "src"]
    /\ cur.fetches # <<>>
    /\ cur.strategy = "download_image"

\* C8: download_album runs only for a post whose own URL contains the album
\* marker, with albums on; a post whose working URL was scraped, or is its
\* own direct-image URL, goes to download_image whatever the URL contains.
C8_AlbumStrategyOnlyForAlbumPosts ==
    Routed =>
        /\ cur.strategy = "download_album"
              => (albums /\ \E i \in 1..Len(cur.post.url) : cur.post.url[i] = "/a/")
        /\ (cur.scraped /\ cur.strategy # "none") => cur.strategy = "download_image"

\* C9: resolving an indirect URL u without a scheme behaves like resolving
\* "http://" + u: that page is fetched and the rule applied is the registry
\* rule of u's domain.
C9_SchemelessResolvesLikePrefixed ==
    (/\ Routed /\ cur.scraped /\ cur.raised = "none"
     /\ Len(cur.post.url) > 0
     /\ cur.post.url[1] \notin {"http://", "https://"})
        => /\ PageFetches # {}
           /\ \A i \in PageFetches : cur.fetches[i].wire = <<"http://">> \o cur.post.url
           /\ cur.rule = RuleFor(cur.post.url[1])

(***************************************************************************)
(* Properties of ImgBot.download                                           *)
(***************************************************************************)
\* two tasks opened the same file name
Collision == \E f \in DOMAIN hist : Cardinality(hist[f].writers) > 1

MixedFileAfterCollision ==
    /\ poolPc = "returned"
    /\ Collision
    /\ \E f \in DOMAIN disk : disk[f] \notin Bodies

====
